---- MODULE Spec2Model ----
(***************************************************************************)
(* Model of api/metric/sync.go: the instrument handles (syncInstrument,    *)
(* syncBoundInstrument, asyncInstrument), the construction safety net      *)
(* (checkNewSync, checkNewAsync and the six wrap functions) and the        *)
(* delegation of bind / directRecord / Unbind / measurement construction   *)
(* to the SyncImpl and BoundSyncImpl interfaces of a backend.              *)
(*                                                                         *)
(* The backend is seen through the calls the facade makes on its           *)
(* interfaces (the variable calls) and the values it returns (chosen       *)
(* nondeterministically).  A method call on a nil interface value is a Go  *)
(* run-time panic (the variable crashed).                                  *)
(***************************************************************************)
EXTENDS Integers, Sequences, FiniteSets, TLC

VARIABLES
    syncH,    \* the syncInstrument values the application holds
    asyncH,   \* the asyncInstrument values the application holds
    boundH,   \* the syncBoundInstrument values the application holds
    calls,    \* the calls received by the backend's interfaces, in order
    last,     \* the last facade call: its name, arguments and results
    crashed   \* TRUE once a method was called on a nil interface (panic)

vars == <<syncH, asyncH, boundH, calls, last, crashed>>

----------------------------------------------------------------------------
(* Bounds of the model *)

\* at most this many calls are recorded on the backend
MaxCalls == 3
\* the backend hands out at most this many distinct bound implementations
MaxBound == 2

----------------------------------------------------------------------------
(* Values *)

\* the nil interface value (SyncImpl(nil), AsyncImpl(nil)) and the nil error
Nil == "nil"
NilErr == "nil"

\* var ErrSDKReturnedNilImpl = errors.New("SDK returned a nil implementation")
ErrSDKReturnedNilImpl == "SDK returned a nil implementation"

\* NoopSync{} and NoopAsync{}: the built-in no-op implementations
NoopSync == "NoopSync"
NoopAsync == "NoopAsync"

\* implementations a backend's constructors return
SyncImpls == {"sync1", "sync2"}
AsyncImpls == {"async1", "async2"}
\* errors a backend's constructors return (the sentinel is an exported
\* variable, so a backend may return it as well)
BackendErrs == {"E1", "E2", ErrSDKReturnedNilImpl}
Errs == {NilErr} \cup BackendErrs

\* the implementation a recording backend is used through in the
\* operations on handles
RecordingImpls == {"sync1"}

\* BoundSyncImpl values: nil, the no-op bound instrument, the backend's
NilBound == [kind |-> "nil", id |-> 0]
NoopBound == [kind |-> "noop", id |-> 0]
BackendBound(n) == [kind |-> "bound", id |-> n]

\* []kv.KeyValue arguments
LabelSets == { << >>, << <<"k", "v">> >> }
\* context.Context arguments
Contexts == {"ctx1", "ctx2"}
\* int64 and float64 arguments (whole-valued floats)
Int64Values == {5}
Float64Values == {5}

\* Number: the tagged numeric value of the specification
NewInt64Number(value) == [kind |-> "Int64", value |-> value]
NewFloat64Number(value) == [kind |-> "Float64", value |-> value]
Numbers == {NewInt64Number(v) : v \in Int64Values}
             \cup {NewFloat64Number(v) : v \in Float64Values}

----------------------------------------------------------------------------
(* The construction safety net *)

\* checkNewAsync without the synthesized error
checkNewAsync_NoSentinel(instrument, err) ==
    IF instrument = Nil
    THEN [common |-> [instrument |-> NoopAsync], err |-> err]
    ELSE [common |-> [instrument |-> instrument], err |-> err]

\* checkNewAsync without the no-op substitution
checkNewAsync_NoSubstitution(instrument, err) ==
    [common |-> [instrument |-> instrument],
     err |-> IF instrument = Nil /\ err = NilErr THEN ErrSDKReturnedNilImpl ELSE err]

\* func checkNewAsync(instrument AsyncImpl, err error) (asyncInstrument, error)
checkNewAsync(instrument, err) ==
    IF instrument = Nil
    THEN [common |-> [instrument |-> NoopAsync],
          err |-> IF err = NilErr THEN ErrSDKReturnedNilImpl ELSE err]
    ELSE [common |-> [instrument |-> instrument], err |-> err]

\* checkNewSync with the error test outside the nil test
checkNewSync_ErrTestUnnested(instrument, err) ==
    [common |-> [instrument |-> IF instrument = Nil THEN NoopSync ELSE instrument],
     err |-> IF err = NilErr THEN ErrSDKReturnedNilImpl ELSE err]

\* checkNewSync that sets the sentinel whenever the implementation is nil
checkNewSync_SentinelAlways(instrument, err) ==
    IF instrument = Nil
    THEN [common |-> [instrument |-> NoopSync], err |-> ErrSDKReturnedNilImpl]
    ELSE [common |-> [instrument |-> instrument], err |-> err]

\* checkNewSync without the no-op substitution
checkNewSync_NoSubstitution(instrument, err) ==
    [common |-> [instrument |-> instrument],
     err |-> IF instrument = Nil /\ err = NilErr THEN ErrSDKReturnedNilImpl ELSE err]

\* func checkNewSync(instrument SyncImpl, err error) (syncInstrument, error)
checkNewSync(instrument, err) ==
    IF instrument = Nil
    THEN [common |-> [instrument |-> NoopSync],
          err |-> IF err = NilErr THEN ErrSDKReturnedNilImpl ELSE err]
    ELSE [common |-> [instrument |-> instrument], err |-> err]

wrapInt64CounterInstrument(syncInst, err) ==
    LET r == checkNewSync(syncInst, err)
    IN  [handle |-> [type |-> "Int64Counter", syncInstrument |-> r.common],
         err |-> r.err]

wrapFloat64CounterInstrument(syncInst, err) ==
    LET r == checkNewSync(syncInst, err)
    IN  [handle |-> [type |-> "Float64Counter", syncInstrument |-> r.common],
         err |-> r.err]

wrapInt64MeasureInstrument(syncInst, err) ==
    LET r == checkNewSync(syncInst, err)
    IN  [handle |-> [type |-> "Int64Measure", syncInstrument |-> r.common],
         err |-> r.err]

wrapFloat64MeasureInstrument(syncInst, err) ==
    LET r == checkNewSync(syncInst, err)
    IN  [handle |-> [type |-> "Float64Measure", syncInstrument |-> r.common],
         err |-> r.err]

wrapInt64ObserverInstrument(asyncInst, err) ==
    LET r == checkNewAsync(asyncInst, err)
    IN  [handle |-> [type |-> "Int64Observer", asyncInstrument |-> r.common],
         err |-> r.err]

wrapFloat64ObserverInstrument(asyncInst, err) ==
    LET r == checkNewAsync(asyncInst, err)
    IN  [handle |-> [type |-> "Float64Observer", asyncInstrument |-> r.common],
         err |-> r.err]

\* the syncInstrument / asyncInstrument values the handles returned for one
\* pair of a backend's constructor embed
WrappedSync(syncInst, err) ==
    {wrapInt64CounterInstrument(syncInst, err).handle.syncInstrument,
     wrapFloat64CounterInstrument(syncInst, err).handle.syncInstrument,
     wrapInt64MeasureInstrument(syncInst, err).handle.syncInstrument,
     wrapFloat64MeasureInstrument(syncInst, err).handle.syncInstrument}
WrappedAsync(asyncInst, err) ==
    {wrapInt64ObserverInstrument(asyncInst, err).handle.asyncInstrument,
     wrapFloat64ObserverInstrument(asyncInst, err).handle.asyncInstrument}

----------------------------------------------------------------------------
(* Handles and value objects *)

\* func newSyncBoundInstrument(boundInstrument BoundSyncImpl) syncBoundInstrument
newSyncBoundInstrument(boundInstrument) == [boundInstrument |-> boundInstrument]

\* func newMeasurement(instrument SyncImpl, number Number) Measurement
newMeasurement(instrument, number) == [instrument |-> instrument, number |-> number]

\* func (m Measurement) SyncImpl() SyncImpl
MeasurementSyncImpl(m) == m.instrument
\* func (m Measurement) Number() Number
MeasurementNumber(m) == m.number
\* func (s syncInstrument) SyncImpl() SyncImpl
SyncImpl(s) == s.instrument
\* func (a asyncInstrument) AsyncImpl() AsyncImpl
AsyncImpl(a) == a.instrument

----------------------------------------------------------------------------
(* The backend's interfaces, as the facade's calls reach them *)

CallBind(inst, labels, ret) ==
    [op |-> "Bind", instrument |-> inst, labels |-> labels, ret |-> ret]
CallRecordOne(inst, ctx, number, labels) ==
    [op |-> "RecordOne", instrument |-> inst, ctx |-> ctx, number |-> number,
     labels |-> labels]
CallBoundRecordOne(b, ctx, number) ==
    [op |-> "BoundRecordOne", bound |-> b, ctx |-> ctx, number |-> number]
CallUnbind(b) == [op |-> "BoundUnbind", bound |-> b]

\* the bound implementations the backend has returned so far
BoundReturned ==
    {calls[i].ret : i \in {j \in 1..Len(calls) :
                             calls[j].op = "Bind" /\ calls[j].ret.kind = "bound"}}

\* what a backend's Bind(labels) may return: nil, a new bound implementation,
\* or the one it returned before for the same instrument and labels
BindResults(inst, labels) ==
    {NilBound}
      \cup {BackendBound(Cardinality(BoundReturned) + 1) :
               x \in {y \in {1} : Cardinality(BoundReturned) < MaxBound}}
      \cup {calls[i].ret : i \in {j \in 1..Len(calls) :
                                    /\ calls[j].op = "Bind"
                                    /\ calls[j].ret.kind = "bound"
                                    /\ calls[j].instrument = inst
                                    /\ calls[j].labels = labels}}

\* a call is recorded when the receiver is an implementation of the backend
IsBackendSync(inst) == inst # Nil /\ inst # NoopSync
IsBackendBound(b) == b.kind = "bound"

----------------------------------------------------------------------------
(* Construction: the six wrap functions *)

WrapSyncStep(fn, r, syncInst, err) ==
    /\ syncH' = syncH \cup {r.handle.syncInstrument}
    /\ last' = [op |-> fn, impl |-> syncInst, err |-> err,
                handle |-> r.handle, errOut |-> r.err]
    /\ UNCHANGED <<asyncH, boundH, calls, crashed>>

WrapAsyncStep(fn, r, asyncInst, err) ==
    /\ asyncH' = asyncH \cup {r.handle.asyncInstrument}
    /\ last' = [op |-> fn, impl |-> asyncInst, err |-> err,
                handle |-> r.handle, errOut |-> r.err]
    /\ UNCHANGED <<syncH, boundH, calls, crashed>>

WrapInt64Counter ==
    \E syncInst \in SyncImpls \cup {Nil}, err \in Errs :
        WrapSyncStep("wrapInt64CounterInstrument",
                     wrapInt64CounterInstrument(syncInst, err), syncInst, err)

WrapFloat64Counter ==
    \E syncInst \in SyncImpls \cup {Nil}, err \in Errs :
        WrapSyncStep("wrapFloat64CounterInstrument",
                     wrapFloat64CounterInstrument(syncInst, err), syncInst, err)

WrapInt64Measure ==
    \E syncInst \in SyncImpls \cup {Nil}, err \in Errs :
        WrapSyncStep("wrapInt64MeasureInstrument",
                     wrapInt64MeasureInstrument(syncInst, err), syncInst, err)

WrapFloat64Measure ==
    \E syncInst \in SyncImpls \cup {Nil}, err \in Errs :
        WrapSyncStep("wrapFloat64MeasureInstrument",
                     wrapFloat64MeasureInstrument(syncInst, err), syncInst, err)

WrapInt64Observer ==
    \E asyncInst \in AsyncImpls \cup {Nil}, err \in Errs :
        WrapAsyncStep("wrapInt64ObserverInstrument",
                      wrapInt64ObserverInstrument(asyncInst, err), asyncInst, err)

WrapFloat64Observer ==
    \E asyncInst \in AsyncImpls \cup {Nil}, err \in Errs :
        WrapAsyncStep("wrapFloat64ObserverInstrument",
                      wrapFloat64ObserverInstrument(asyncInst, err), asyncInst, err)

----------------------------------------------------------------------------
(* Operations on handles *)

\* the program runs until it panics; the model follows it until the backend
\* has received MaxCalls calls
Running == ~crashed /\ Len(calls) < MaxCalls

\* bind that passes no labels on
bindCall_DropsLabels(s, labels, ret) == CallBind(s.instrument, << >>, ret)

\* s.instrument.Bind(labels), returning ret
bindCall(s, labels, ret) == CallBind(s.instrument, labels, ret)
\* s.instrument.RecordOne(ctx, number, labels)
directRecordCall(s, ctx, number, labels) ==
    CallRecordOne(s.instrument, ctx, number, labels)
\* h.boundInstrument.RecordOne(ctx, number)
boundDirectRecordCall(h, ctx, number) ==
    CallBoundRecordOne(h.boundInstrument, ctx, number)
\* h.boundInstrument.Unbind()
UnbindCall(h) == CallUnbind(h.boundInstrument)

\* func (s syncInstrument) bind(labels []kv.KeyValue) syncBoundInstrument
bind(s, labels) ==
    /\ Running
    /\ IF s.instrument = Nil
       THEN /\ crashed' = TRUE
            /\ last' = [op |-> "bind", s |-> s, labels |-> labels]
            /\ UNCHANGED <<boundH, calls>>
       ELSE \E ret \in IF s.instrument = NoopSync
                       THEN {NoopBound}
                       ELSE BindResults(s.instrument, labels) :
               /\ calls' = IF s.instrument = NoopSync
                           THEN calls
                           ELSE Append(calls, bindCall(s, labels, ret))
               /\ boundH' = boundH \cup {newSyncBoundInstrument(ret)}
               /\ last' = [op |-> "bind", s |-> s, labels |-> labels,
                           result |-> newSyncBoundInstrument(ret)]
               /\ UNCHANGED crashed
    /\ UNCHANGED <<syncH, asyncH>>

\* func (s syncInstrument) directRecord(ctx, number, labels)
directRecord(s, ctx, number, labels) ==
    /\ Running
    /\ crashed' = (s.instrument = Nil)
    /\ calls' = IF IsBackendSync(s.instrument)
                THEN Append(calls, directRecordCall(s, ctx, number, labels))
                ELSE calls
    /\ last' = [op |-> "directRecord", s |-> s, ctx |-> ctx, number |-> number,
                labels |-> labels]
    /\ UNCHANGED <<syncH, asyncH, boundH>>

\* a bound directRecord that refuses to record once the handle's bound
\* implementation has been unbound
boundDirectRecord_ReleasedGuard(h, ctx, number) ==
    /\ Running
    /\ crashed' = (h.boundInstrument = NilBound)
    /\ calls' = IF /\ IsBackendBound(h.boundInstrument)
                   /\ \A i \in 1..Len(calls) : calls[i] # UnbindCall(h)
                THEN Append(calls, boundDirectRecordCall(h, ctx, number))
                ELSE calls
    /\ last' = [op |-> "boundDirectRecord", h |-> h, ctx |-> ctx, number |-> number]
    /\ UNCHANGED <<syncH, asyncH, boundH>>

\* func (h syncBoundInstrument) directRecord(ctx, number)
boundDirectRecord(h, ctx, number) ==
    /\ Running
    /\ crashed' = (h.boundInstrument = NilBound)
    /\ calls' = IF IsBackendBound(h.boundInstrument)
                THEN Append(calls, boundDirectRecordCall(h, ctx, number))
                ELSE calls
    /\ last' = [op |-> "boundDirectRecord", h |-> h, ctx |-> ctx, number |-> number]
    /\ UNCHANGED <<syncH, asyncH, boundH>>

\* an Unbind that does not reach the backend
Unbind_NotDelegated(h) ==
    /\ Running
    /\ crashed' = (h.boundInstrument = NilBound)
    /\ last' = [op |-> "Unbind", h |-> h]
    /\ UNCHANGED <<syncH, asyncH, boundH, calls>>

\* an Unbind that calls the backend's Unbind twice
Unbind_Twice(h) ==
    /\ Running
    /\ crashed' = (h.boundInstrument = NilBound)
    /\ calls' = IF IsBackendBound(h.boundInstrument)
                THEN Append(Append(calls, UnbindCall(h)), UnbindCall(h))
                ELSE calls
    /\ last' = [op |-> "Unbind", h |-> h]
    /\ UNCHANGED <<syncH, asyncH, boundH>>

\* func (h syncBoundInstrument) Unbind()
Unbind(h) ==
    /\ Running
    /\ crashed' = (h.boundInstrument = NilBound)
    /\ calls' = IF IsBackendBound(h.boundInstrument)
                THEN Append(calls, UnbindCall(h))
                ELSE calls
    /\ last' = [op |-> "Unbind", h |-> h]
    /\ UNCHANGED <<syncH, asyncH, boundH>>

\* an int64Measurement that also records the value
int64Measurement_Records(s, value) ==
    /\ Running
    /\ last' = [op |-> "int64Measurement", s |-> s, value |-> value,
                result |-> newMeasurement(s.instrument, NewInt64Number(value))]
    /\ calls' = IF IsBackendSync(s.instrument)
                THEN Append(calls, CallRecordOne(s.instrument, "ctx1",
                                                 NewInt64Number(value), << >>))
                ELSE calls
    /\ UNCHANGED <<syncH, asyncH, boundH, crashed>>

\* func (s syncInstrument) int64Measurement(value int64) Measurement
int64Measurement(s, value) ==
    /\ Running
    /\ last' = [op |-> "int64Measurement", s |-> s, value |-> value,
                result |-> newMeasurement(s.instrument, NewInt64Number(value))]
    /\ UNCHANGED <<syncH, asyncH, boundH, calls, crashed>>

\* func (s syncInstrument) float64Measurement(value float64) Measurement
float64Measurement(s, value) ==
    /\ Running
    /\ last' = [op |-> "float64Measurement", s |-> s, value |-> value,
                result |-> newMeasurement(s.instrument, NewFloat64Number(value))]
    /\ UNCHANGED <<syncH, asyncH, boundH, calls, crashed>>

Bind == \E s \in syncH, labels \in LabelSets : bind(s, labels)
DirectRecord ==
    \E s \in syncH, ctx \in Contexts, number \in Numbers, labels \in LabelSets :
        directRecord(s, ctx, number, labels)
BoundDirectRecord ==
    \E h \in boundH, ctx \in Contexts, number \in Numbers :
        boundDirectRecord(h, ctx, number)
BoundUnbind == \E h \in boundH : Unbind(h)
Int64Measurement == \E s \in syncH, value \in Int64Values : int64Measurement(s, value)
Float64Measurement ==
    \E s \in syncH, value \in Float64Values : float64Measurement(s, value)

----------------------------------------------------------------------------
(* Specifications *)

NoCall == [op |-> "none"]

\* construction: nothing is wrapped yet, the six wrap functions are applied
\* to every pair a backend's constructor may return
InitWrap ==
    /\ syncH = {}
    /\ asyncH = {}
    /\ boundH = {}
    /\ calls = << >>
    /\ last = NoCall
    /\ crashed = FALSE

NextWrap ==
    \/ WrapInt64Counter
    \/ WrapFloat64Counter
    \/ WrapInt64Measure
    \/ WrapFloat64Measure
    \/ WrapInt64Observer
    \/ WrapFloat64Observer

SpecWrap == InitWrap /\ [][NextWrap]_vars

\* use: the application holds the handles the wrap functions return for a
\* backend's constructor that returned a recording implementation or nil
Init ==
    /\ syncH = UNION {WrappedSync(i, e) : i \in RecordingImpls \cup {Nil}, e \in Errs}
    /\ asyncH = UNION {WrappedAsync(i, e) : i \in AsyncImpls \cup {Nil}, e \in Errs}
    /\ boundH = {}
    /\ calls = << >>
    /\ last = NoCall
    /\ crashed = FALSE

Next ==
    \/ Bind
    \/ DirectRecord
    \/ BoundDirectRecord
    \/ BoundUnbind
    \/ Int64Measurement
    \/ Float64Measurement

Spec == Init /\ [][Next]_vars

----------------------------------------------------------------------------
(* Properties of the construction safety net, under SpecWrap *)

SyncWrapFns == {"wrapInt64CounterInstrument", "wrapFloat64CounterInstrument",
                "wrapInt64MeasureInstrument", "wrapFloat64MeasureInstrument"}
AsyncWrapFns == {"wrapInt64ObserverInstrument", "wrapFloat64ObserverInstrument"}
WrapFns == SyncWrapFns \cup AsyncWrapFns

\* the implementation a handle returned by a wrap function wraps
ImplOf(handle) ==
    IF handle.type \in {"Int64Observer", "Float64Observer"}
    THEN AsyncImpl(handle.asyncInstrument)
    ELSE SyncImpl(handle.syncInstrument)

\* the no-op implementation of the kind a wrap function returns
NoopOf(fn) == IF fn \in AsyncWrapFns THEN NoopAsync ELSE NoopSync

\* C1: each of the six wrap functions, called with a non-nil implementation
\* and any error E (nil or not), returns a handle wrapping that very
\* implementation and returns E itself.
C1_NonNilImplAndErrorPassThrough ==
    (last.op \in WrapFns /\ last.impl # Nil)
        => /\ ImplOf(last.handle) = last.impl
           /\ last.errOut = last.err

C1_Witness ==
    /\ last.op = "wrapFloat64ObserverInstrument"
    /\ last.impl = "async2"
    /\ last.err = "E1"
    /\ ImplOf(last.handle) = "async2"
    /\ last.errOut = "E1"

\* C2: each wrap function, called with a nil implementation and a nil error,
\* returns a handle wrapping the no-op implementation of its kind (NoopSync,
\* NoopAsync for the observers) and returns ErrSDKReturnedNilImpl, never nil.
C2_NilImplNilErrGivesNoopAndSentinel ==
    (last.op \in WrapFns /\ last.impl = Nil /\ last.err = NilErr)
        => /\ ImplOf(last.handle) = NoopOf(last.op)
           /\ last.errOut = ErrSDKReturnedNilImpl
           /\ last.errOut # NilErr

C2_Witness ==
    /\ last.op = "wrapInt64ObserverInstrument"
    /\ last.impl = Nil
    /\ last.err = NilErr
    /\ ImplOf(last.handle) = NoopAsync
    /\ last.errOut = ErrSDKReturnedNilImpl

\* C3: each wrap function, called with a nil implementation and a non-nil
\* error E, returns a handle wrapping the no-op implementation and returns E:
\* the sentinel does not replace the backend's error.
C3_NilImplKeepsBackendError ==
    (last.op \in WrapFns /\ last.impl = Nil /\ last.err # NilErr)
        => /\ ImplOf(last.handle) = NoopOf(last.op)
           /\ last.errOut = last.err

C3_Witness ==
    /\ last.op = "wrapInt64MeasureInstrument"
    /\ last.impl = Nil
    /\ last.err = "E2"
    /\ ImplOf(last.handle) = NoopSync
    /\ last.errOut = "E2"
    /\ last.errOut # ErrSDKReturnedNilImpl

----------------------------------------------------------------------------
(* Properties of the operations on handles, under Spec *)

\* the positions of the Bind calls that returned the bound implementation b
BindsOf(b) == {i \in 1..Len(calls) : calls[i].op = "Bind" /\ calls[i].ret = b}
\* the number of Unbind calls the bound implementation b received in log
UnbindCount(log, b) == Cardinality({i \in 1..Len(log) : log[i] = CallUnbind(b)})
\* b has received an Unbind call
Released(b) == UnbindCount(calls, b) > 0

\* C4 as stated: every handle the application holds, the bound ones
\* included, wraps a non-nil implementation whatever the backend's
\* constructors and the backend's Bind return, so that no operation is
\* invoked on a nil implementation.
C4_Stated_EveryHandleWrapsNonNil ==
    /\ \A s \in syncH : SyncImpl(s) # Nil
    /\ \A a \in asyncH : AsyncImpl(a) # Nil
    /\ \A h \in boundH : h.boundInstrument # NilBound
    /\ ~crashed

\* C4 as amended: the unbound synchronous handles and the asynchronous
\* handles wrap a non-nil implementation whatever the backend's constructors
\* return; a bound handle wraps what the backend's Bind returned, unchecked:
\* it wraps nil exactly when a Bind of the backend returned nil, and an
\* operation is invoked on a nil implementation only through such a handle.
C4_HandlesNonNilBoundAsReturned ==
    /\ \A s \in syncH : SyncImpl(s) # Nil
    /\ \A a \in asyncH : AsyncImpl(a) # Nil
    /\ \A h \in boundH :
          \/ h.boundInstrument = NoopBound
          \/ BindsOf(h.boundInstrument) # {}
    /\ \A i \in 1..Len(calls) :
          calls[i].op = "Bind" => newSyncBoundInstrument(calls[i].ret) \in boundH
    /\ crashed => /\ last.op \in {"boundDirectRecord", "Unbind"}
                  /\ last.h.boundInstrument = NilBound
                  /\ BindsOf(NilBound) # {}

C4_Witness ==
    /\ [instrument |-> NoopSync] \in syncH
    /\ [instrument |-> NoopAsync] \in asyncH
    /\ newSyncBoundInstrument(NilBound) \in boundH
    /\ newSyncBoundInstrument(BackendBound(1)) \in boundH
    /\ newSyncBoundInstrument(NoopBound) \in boundH
    /\ crashed

\* the record the backend receives by its i-th call, a RecordOne or a bound
\* RecordOne: for a bound RecordOne the instrument and the labels are those
\* of the Bind call that returned the bound implementation
LogicalRecord(i) ==
    IF calls[i].op = "RecordOne"
    THEN [instrument |-> calls[i].instrument, labels |-> calls[i].labels,
          ctx |-> calls[i].ctx, number |-> calls[i].number]
    ELSE LET j == CHOOSE k \in BindsOf(calls[i].bound) : TRUE
         IN  [instrument |-> calls[j].instrument, labels |-> calls[j].labels,
              ctx |-> calls[i].ctx, number |-> calls[i].number]

\* C5: b := h.bind(L); b.directRecord(ctx, V) delivers to the backend the
\* same logical record (instrument of h, labels L, ctx, V) as
\* h.directRecord(ctx, V, L): bind hands exactly L to the Bind of h's
\* instrument and wraps what it returns, the bound directRecord hands exactly
\* ctx and V to the RecordOne of that bound implementation, and the unbound
\* directRecord hands exactly ctx, V and L to the RecordOne of h's instrument.
C5_BoundPathEquivalentToUnboundPath ==
    /\ (last.op = "bind" /\ IsBackendSync(last.s.instrument))
          => /\ Len(calls) > 0
             /\ calls[Len(calls)] = CallBind(SyncImpl(last.s), last.labels,
                                             last.result.boundInstrument)
    /\ (last.op = "directRecord" /\ IsBackendSync(last.s.instrument))
          => /\ Len(calls) > 0
             /\ calls[Len(calls)].op = "RecordOne"
             /\ LogicalRecord(Len(calls)) =
                   [instrument |-> SyncImpl(last.s), labels |-> last.labels,
                    ctx |-> last.ctx, number |-> last.number]
    /\ (last.op = "boundDirectRecord" /\ IsBackendBound(last.h.boundInstrument))
          => /\ Len(calls) > 0
             /\ calls[Len(calls)].op = "BoundRecordOne"
             /\ calls[Len(calls)].bound = last.h.boundInstrument
             /\ \A j \in BindsOf(last.h.boundInstrument) :
                   LogicalRecord(Len(calls)) =
                      [instrument |-> calls[j].instrument,
                       labels |-> calls[j].labels,
                       ctx |-> last.ctx, number |-> last.number]

\* the two paths have delivered the same logical record
C5_Witness ==
    /\ Len(calls) = 3
    /\ calls[1].op = "RecordOne"
    /\ calls[1].labels = << <<"k", "v">> >>
    /\ calls[2] = CallBind("sync1", << <<"k", "v">> >>, BackendBound(1))
    /\ calls[3].op = "BoundRecordOne"
    /\ last.op = "boundDirectRecord"
    /\ last.h = newSyncBoundInstrument(BackendBound(1))
    /\ LogicalRecord(3) = LogicalRecord(1)

\* the backend call a facade call on a handle of the backend is delegated to
Delegated(l) ==
    CASE l.op = "bind" -> CallBind(SyncImpl(l.s), l.labels, l.result.boundInstrument)
      [] l.op = "directRecord" -> CallRecordOne(SyncImpl(l.s), l.ctx, l.number, l.labels)
      [] l.op = "boundDirectRecord" ->
            CallBoundRecordOne(l.h.boundInstrument, l.ctx, l.number)
      [] l.op = "Unbind" -> CallUnbind(l.h.boundInstrument)

\* the facade call l was made on a handle wrapping an implementation of the
\* backend
OnBackend(l) ==
    \/ l.op \in {"bind", "directRecord"} /\ IsBackendSync(l.s.instrument)
    \/ l.op \in {"boundDirectRecord", "Unbind"} /\ IsBackendBound(l.h.boundInstrument)

\* C6: on a handle of a recording backend, bind(L), the bound
\* directRecord(ctx, V) and Unbind() each cause exactly one backend call, the
\* matching one (Bind(L), the bound RecordOne carrying V, Unbind), appended
\* after the calls made before: none is added, dropped or reordered.
C6_OneBackendCallPerFacadeCallInOrder ==
    [][OnBackend(last') => calls' = Append(calls, Delegated(last'))]_vars

\* the scenario: bind with {"k":"v"}, record the integer 5, unbind
C6_Witness ==
    /\ calls = << CallBind("sync1", << <<"k", "v">> >>, BackendBound(1)),
                  CallBoundRecordOne(BackendBound(1), "ctx1", NewInt64Number(5)),
                  CallUnbind(BackendBound(1)) >>
    /\ last = [op |-> "Unbind", h |-> newSyncBoundInstrument(BackendBound(1))]

\* C7 as stated: over any sequence of facade operations a bound
\* implementation never receives more Unbind calls than there were Bind calls
\* returning it (exactly one Unbind for each successful bind).
C7_Stated_UnbindOncePerBind ==
    \A b \in BoundReturned : UnbindCount(calls, b) <= Cardinality(BindsOf(b))

\* C7 as amended: the backend's Unbind is called exactly once for each call of
\* Unbind() on a bound handle wrapping a bound implementation of the backend,
\* on that implementation, and by no other facade operation; the facade does
\* not limit the Unbind() calls to one for each bind.
C7_OneBackendUnbindPerFacadeUnbind ==
    [][\A b \in BoundReturned :
          UnbindCount(calls', b) - UnbindCount(calls, b) =
             IF last'.op = "Unbind" /\ last'.h.boundInstrument = b THEN 1 ELSE 0]_vars

\* Unbind() was called twice on a handle and the backend received two calls
C7_Witness ==
    /\ Cardinality(BindsOf(BackendBound(1))) = 1
    /\ UnbindCount(calls, BackendBound(1)) = 2
    /\ last = [op |-> "Unbind", h |-> newSyncBoundInstrument(BackendBound(1))]

\* the syncInstrument values of the handles the wrap functions return when
\* the backend's constructor returned (nil, nil)
NilNilHandles == WrappedSync(Nil, NilErr)

\* C8: a directRecord on a handle constructed from (nil, nil) completes as a
\* no-op: it does not panic and no backend receives a call; the only error is
\* the one the construction returned.
C8_DirectRecordOnNilNilHandleIsNoop ==
    [][(last'.op = "directRecord" /\ last'.s \in NilNilHandles)
          => /\ ~crashed'
             /\ calls' = calls
             /\ wrapInt64CounterInstrument(Nil, NilErr).err = ErrSDKReturnedNilImpl]_vars

C8_Witness ==
    /\ last.op = "directRecord"
    /\ last.s \in NilNilHandles
    /\ last.s \in syncH
    /\ last.number = NewInt64Number(5)
    /\ ~crashed
    /\ Len(calls) = 1

\* C9: constructing a Measurement invokes no backend operation, leaves the
\* handles and the backend's calls unchanged and returns a Measurement whose
\* SyncImpl() is the handle's wrapped implementation.
C9_MeasurementIsPure ==
    [][last'.op \in {"int64Measurement", "float64Measurement"}
          => /\ UNCHANGED <<syncH, asyncH, boundH, calls, crashed>>
             /\ MeasurementSyncImpl(last'.result) = SyncImpl(last'.s)
             /\ MeasurementNumber(last'.result).value = last'.value]_vars

C9_Witness ==
    /\ last.op = "int64Measurement"
    /\ last.s = [instrument |-> "sync1"]
    /\ last.value = 5
    /\ MeasurementSyncImpl(last.result) = "sync1"
    /\ MeasurementNumber(last.result) = NewInt64Number(5)
    /\ Len(calls) = 1

\* C10: the facade keeps no liveness state: after Unbind() the handle still
\* holds the same bound implementation, and a later directRecord or Unbind()
\* on it is delegated unchanged to the backend's bound RecordOne or Unbind.
C10_NoPostUnbindGuard ==
    [][/\ boundH \subseteq boundH'
       /\ (/\ last'.op \in {"boundDirectRecord", "Unbind"}
           /\ IsBackendBound(last'.h.boundInstrument)
           /\ Released(last'.h.boundInstrument))
             => /\ last'.h \in boundH'
                /\ calls' = Append(calls, Delegated(last'))]_vars

\* a bound RecordOne reached the backend after the Unbind
C10_Witness ==
    /\ calls = << CallBind("sync1", << >>, BackendBound(1)),
                  CallUnbind(BackendBound(1)),
                  CallBoundRecordOne(BackendBound(1), "ctx2", NewFloat64Number(5)) >>
    /\ newSyncBoundInstrument(BackendBound(1)) \in boundH
====
